---- MODULE Spec2Model ----
(***************************************************************************)
(* Credential lifecycle manager of apigee-key-manager (app/main.py).       *)
(*                                                                         *)
(* The key manager keeps one AppSecret per application in a process-local  *)
(* dict (apps_cache) and, when DEV_MODE is off, writes every credential    *)
(* pair as a new version of the secret "apigee-key-<app>" in Google Secret *)
(* Manager.  The secret store is shared by every process that runs the     *)
(* key manager; the cache is private to one process.                       *)
(*                                                                         *)
(* Time: datetime.now() is a read of a clock that may have advanced since  *)
(* the previous read, also between two reads of one handler.  A datetime   *)
(* is [day, us]: timedelta(days = p) adds to day, the clock moves us.      *)
(* uuid.uuid4() is a draw from a counter: every draw is a fresh value.     *)
(***************************************************************************)
EXTENDS Integers, Sequences, FiniteSets, Bags, TLC

(* ------------------------------ bounds --------------------------------- *)
\* Largest clock reading (in clock ticks after start-up).
MaxClock == 1
\* Number of uuid4() draws the model follows (two per credential pair).
MaxUuid == 6
MaxFaults == 3
MaxTimerId == 3

Apps == {"demo", "ghost"}
\* Processes running the key manager against the same secret store.
Procs == {"w1", "w2"}
MainProc == "w1"

(* ------------------------- program constants --------------------------- *)
\* Config.ROTATION_PERIOD_DAYS (default of the environment variable).
ROTATION_PERIOD_DAYS == 30
\* RotationSchedule.validate_period bounds.
MinPeriod == 1
MaxPeriod == 365

\* Periods offered to create: both bounds, one below, one above, the default.
PeriodInputs == {MinPeriod - 1, MinPeriod, ROTATION_PERIOD_DAYS, MaxPeriod, MaxPeriod + 1}

(* ------------------------------ datetime ------------------------------- *)
\* datetime.now() when the clock reads t.
DatetimeAt(t) == [day |-> 0, us |-> t]

\* dt + timedelta(days = p)
AddDays(dt, p) == [dt EXCEPT !.day = @ + p]

\* datetime.isoformat(): the microsecond part is left out when it is zero.
isoformat(dt) == IF dt.us = 0 THEN <<dt.day>> ELSE <<dt.day, dt.us>>

\* datetime.fromisoformat(): a missing microsecond part reads as zero.
fromisoformat(s) == IF Len(s) = 1 THEN [day |-> s[1], us |-> 0]
                    ELSE [day |-> s[1], us |-> s[2]]

(* ----------------------------- credentials ----------------------------- *)
\* Variant: the pair is generated once and reused by every call.
NewCredentials_Fixed(n) == [key |-> <<"key", 1>>, secret |-> <<"secret", 2>>]

\* {"key": f"key-{uuid4()}", "secret": f"secret-{uuid4()}"}, the draws being n+1, n+2.
NewCredentials(n) == [key |-> <<"key", n + 1>>, secret |-> <<"secret", n + 2>>]

(* ------------------------- persisted payload --------------------------- *)
\* secret_data as prepared by SecretManager.create_secret from three clock readings.
SecretData(app, credentials, period, t1, t2, t3) ==
    [credentials |-> credentials,
     metadata |-> [app_name |-> app,
                   created_at |-> isoformat(DatetimeAt(t1)),
                   last_rotated |-> isoformat(DatetimeAt(t2)),
                   next_rotation |-> isoformat(AddDays(DatetimeAt(t3), period)),
                   rotation_period_days |-> period]]

\* json.dumps(secret_data).encode("UTF-8"): the payload bytes of a version.
json_dumps(d) == <<d.credentials.key, d.credentials.secret, d.metadata.app_name,
                   d.metadata.created_at, d.metadata.last_rotated,
                   d.metadata.next_rotation, d.metadata.rotation_period_days>>

\* json.loads(payload.decode("UTF-8"))
json_loads(b) == [credentials |-> [key |-> b[1], secret |-> b[2]],
                  metadata |-> [app_name |-> b[3], created_at |-> b[4],
                                last_rotated |-> b[5], next_rotation |-> b[6],
                                rotation_period_days |-> b[7]]]

\* AppSecret(...)
AppSecret(app, key, secret, last_rotated, next_rotation) ==
    [app_name |-> app, consumer_key |-> key, consumer_secret |-> secret,
     last_rotated |-> last_rotated, next_rotation |-> next_rotation]

(* ------------------------------- state --------------------------------- *)
VARIABLES
    devMode,      \* per process: Config.DEV_MODE (read from the process environment)
    secret_manager, \* per process: whether the module's secret_manager is a SecretManager (not None)
    clock,        \* the latest reading of the system clock
    uuid,         \* number of uuid4() draws so far
    containers,   \* secret store: app name -> labels of its secret (container)
    versions,     \* secret store: app name -> payloads of its versions, oldest first
    apps_cache,   \* per process: ApigeeKeyManager.apps_cache
    pc,           \* per process: position inside the call in flight
    local,        \* per process: locals of the call in flight
    resp,         \* the response of the operation that completed last
    created,      \* history: the names POST /apps/{app}/schedule has answered 200 for
    faults,       \* secret store: the outcomes of the next client calls, in call order
    timers        \* rotation scheduler: the armed timers

vars == <<devMode, secret_manager, clock, uuid, containers, versions, apps_cache, pc, local, resp, created,
          faults, timers>>
store == <<containers, versions>>

NoLocal == [app |-> "", new_credentials |-> <<>>, rotation_period |-> 0, times |-> <<>>, op |-> ""]

\* A response: status is the HTTP status; secret, apps and body hold what the
\* operation returned (secret: zero or one AppSecret; apps: a bag of AppSecret;
\* body: zero or one dict of verify).
Response(op, p, app, period, status, secret, apps, body) ==
    [op |-> op, proc |-> p, app |-> app, period |-> period, status |-> status,
     secret |-> secret, apps |-> apps, body |-> body]

\* The state after the module is loaded in every process, mode[p] being the
\* DEV_MODE of process p and project[p] whether its GOOGLE_CLOUD_PROJECT is
\* set: secret_manager stays None unless DEV_MODE is off and PROJECT_ID is set.
InitState(mode, project) ==
    /\ devMode = mode
    /\ secret_manager = [p \in Procs |-> ~mode[p] /\ project[p]]
    /\ clock = 0
    /\ uuid = 0
    /\ containers = <<>>
    /\ versions = [a \in Apps |-> <<>>]
    /\ apps_cache = [p \in Procs |-> <<>>]
    /\ pc = [p \in Procs |-> "idle"]
    /\ local = [p \in Procs |-> NoLocal]
    /\ resp = Response("start", MainProc, "", 0, 200, <<>>, EmptyBag, <<>>)
    /\ created = {}
    /\ faults = <<>>
    /\ timers = {}

\* Every process of a deployment is started with the same environment.
Init == \E b \in BOOLEAN, g \in BOOLEAN : InitState([p \in Procs |-> b], [p \in Procs |-> g])


(* --------------------- SecretManager (secret store) -------------------- *)
\* labels given to a secret created by SecretManager.create_secret
SecretLabels(app) == [type |-> "apigee-key", app |-> app, created_by |-> "key-manager"]

\* Variant: the dict is replaced by one holding k alone.
Put_Only(d, k, v) == [x \in {k} |-> v]

\* A dict with key k set to v.
Put(d, k, v) == [x \in DOMAIN d \cup {k} |-> IF x = k THEN v ELSE d[x]]

\* The outcome of the k-th call a handler makes on the secret manager client:
\* "ok", or "unavailable" when the call raises ServiceUnavailable.
CallOutcome(k) == IF k <= Len(faults) THEN faults[k] ELSE "ok"

\* The outcomes left for later calls once a handler has made n calls.
AfterCalls(n) == IF n >= Len(faults) THEN <<>> ELSE SubSeq(faults, n + 1, Len(faults))

\* client.create_secret raises AlreadyExists for a secret_id that is in use.
AlreadyExists(cs, app) == app \in DOMAIN cs

\* Variant: AlreadyExists is not caught.
ContainerStepRaises_NoCatch(cs, app) == AlreadyExists(cs, app)

\* Whether the container step of create_secret lets an exception out:
\* AlreadyExists is caught and logged, nothing else is raised here.
ContainerStepRaises(cs, app) == FALSE

\* The containers after the container step of create_secret.
EnsureContainer(cs, app) == IF AlreadyExists(cs, app) THEN cs ELSE Put(cs, app, SecretLabels(app))

\* Variant: the payload is put in front of the versions there are.
AddVersion_Prepend(vs, app, data) == [vs EXCEPT ![app] = <<json_dumps(data)>> \o @]

\* Variant: the payload is added to every secret.
AddVersion_AllSecrets(vs, app, data) == [a \in DOMAIN vs |-> Append(vs[a], json_dumps(data))]

\* client.add_secret_version: the payload becomes the newest version.
AddVersion(vs, app, data) == [vs EXCEPT ![app] = Append(@, json_dumps(data))]

\* SecretManager.create_secret on the current store.
CreateSecretRaises(app) == ContainerStepRaises(containers, app)
CreateSecretContainers(app) == EnsureContainer(containers, app)

\* Variant: the payload replaces the newest version instead of being appended.
CreateSecretVersions_InPlace(app, credentials, period, t1, t2, t3) ==
    [versions EXCEPT ![app] =
        IF Len(@) = 0
        THEN <<json_dumps(SecretData(app, credentials, period, t1, t2, t3))>>
        ELSE [@ EXCEPT ![Len(@)] = json_dumps(SecretData(app, credentials, period, t1, t2, t3))]]

CreateSecretVersions(app, credentials, period, t1, t2, t3) ==
    AddVersion(versions, app, SecretData(app, credentials, period, t1, t2, t3))

\* client.access_secret_version(".../versions/latest") finds a version.
HasLatest(app) == app \in DOMAIN containers /\ Len(versions[app]) > 0

\* Variant: the oldest version is read.
GetSecret_Oldest(app) == json_loads(versions[app][1])

\* SecretManager.get_secret when it does not raise: the decoded newest payload.
GetSecret(app) == json_loads(versions[app][Len(versions[app])])

\* Variant: the configured default is written instead of the period read.
RotationPeriodWritten_Default(existing_secret) == ROTATION_PERIOD_DAYS

\* The rotation period rotate_secret hands to create_secret.
RotationPeriodWritten(existing_secret) == existing_secret.metadata.rotation_period_days

\* The AppSecret get_app_status builds from secret_data.
StatusFromSecret(app, secret_data) ==
    AppSecret(app, secret_data.credentials.key, secret_data.credentials.secret,
              fromisoformat(secret_data.metadata.last_rotated),
              fromisoformat(secret_data.metadata.next_rotation))

\* Variant: the label filter of SecretManagerClient.list_api_keys
\* (created_by=apigee-key-manager) is used on secrets labelled by SecretManager.
ListSecrets_ClientFilter(S) ==
    SetToBag({GetSecret(containers[a].app) :
                a \in {x \in S : containers[x].created_by = "apigee-key-manager"
                                   /\ HasLatest(containers[x].app)}})

\* SecretManager.list_secrets over the containers in S: the secrets carrying the
\* label type=apigee-key, each resolved through its app label; one that cannot
\* be read is skipped.
RECURSIVE ListSecrets(_)
ListSecrets(S) ==
    IF S = {} THEN EmptyBag
    ELSE LET a == CHOOSE x \in S : TRUE
             app_name == containers[a].app
         IN  (IF containers[a].type = "apigee-key" /\ app_name # "" /\ HasLatest(app_name)
              THEN SetToBag({GetSecret(app_name)}) ELSE EmptyBag)
             (+) ListSecrets(S \ {a})

\* list_apps, durable branch: every listed secret resolved to its status by
\* metadata.app_name; an entry whose status cannot be read is skipped.
RECURSIVE ListStatuses(_)
ListStatuses(secrets) ==
    IF BagToSet(secrets) = {} THEN EmptyBag
    ELSE LET s == CHOOSE x \in BagToSet(secrets) : TRUE
             app_name == s.metadata.app_name
             rest == ListStatuses([x \in BagToSet(secrets) \ {s} |-> secrets[x]])
             one == IF HasLatest(app_name)
                    THEN SetToBag({StatusFromSecret(app_name, GetSecret(app_name))})
                    ELSE EmptyBag
         IN  IF CopiesIn(s, secrets) = 1 THEN one (+) rest
             ELSE one (+) ListStatuses([secrets EXCEPT ![s] = @ - 1])

\* list(apps_cache.values())
RECURSIVE CacheValues(_, _)
CacheValues(cache, S) ==
    IF S = {} THEN EmptyBag
    ELSE LET a == CHOOSE x \in S : TRUE
         IN  SetToBag({cache[a]}) (+) CacheValues(cache, S \ {a})

(* ------------------------- ApigeeKeyManager ---------------------------- *)
\* Variant: the upper bound is not checked.
ValidPeriod_NoUpper(v) == ~(v < MinPeriod)

\* RotationSchedule.validate_period accepts v.
ValidPeriod(v) == ~(v < MinPeriod) /\ ~(v > MaxPeriod)

\* The period rotate_secret adds to now() for the next_rotation it returns.
RotateReturnedPeriod(rotation_period) == ROTATION_PERIOD_DAYS

\* Variant: the cache entry is assigned before the secret is stored.
CacheAfterFailedWrite_Early(p, app, s) == [apps_cache EXCEPT ![p] = Put(@, app, s)]

\* The cache of create_app and rotate_secret when create_secret raised: the
\* assignment to apps_cache[app_name] comes after the call and is not reached.
CacheAfterFailedWrite(p, app, s) == apps_cache

\* ApigeeKeyManager.create_app(app, period) called for operation op; an
\* exception leaves with status errStatus.
CreateApp(p, op, app, period, errStatus) ==
    LET credentials == NewCredentials(uuid) IN
    /\ uuid' = uuid + 2
    /\ IF devMode[p]
       THEN \E t4 \in clock..MaxClock : \E t5 \in t4..MaxClock :
              LET s == AppSecret(app, credentials.key, credentials.secret,
                                 DatetimeAt(t4), AddDays(DatetimeAt(t5), period))
              IN  /\ clock' = t5
                  /\ apps_cache' = [apps_cache EXCEPT ![p] = Put(@, app, s)]
                  /\ resp' = Response(op, p, app, period, 200, <<s>>, EmptyBag, <<>>)
                  /\ UNCHANGED <<store, faults>>
       ELSE IF ~secret_manager[p]
       THEN \* secret_manager is None: secret_manager.create_secret raises AttributeError
            /\ resp' = Response(op, p, app, period, errStatus, <<>>, EmptyBag, <<>>)
            /\ UNCHANGED <<clock, store, apps_cache, faults>>
       ELSE \E t1 \in clock..MaxClock : \E t2 \in t1..MaxClock : \E t3 \in t2..MaxClock :
              LET f == AppSecret(app, credentials.key, credentials.secret,
                                 DatetimeAt(t3), AddDays(DatetimeAt(t3), period))
              IN
              IF CreateSecretRaises(app) \/ CallOutcome(1) # "ok"
              THEN /\ clock' = t3
                   /\ faults' = AfterCalls(1)
                   /\ resp' = Response(op, p, app, period, errStatus, <<>>, EmptyBag, <<>>)
                   /\ apps_cache' = CacheAfterFailedWrite(p, app, f)
                   /\ UNCHANGED store
              ELSE IF CallOutcome(2) # "ok"
              THEN /\ clock' = t3
                   /\ faults' = AfterCalls(2)
                   /\ containers' = CreateSecretContainers(app)
                   /\ resp' = Response(op, p, app, period, errStatus, <<>>, EmptyBag, <<>>)
                   /\ apps_cache' = CacheAfterFailedWrite(p, app, f)
                   /\ UNCHANGED versions
              ELSE \E t4 \in t3..MaxClock : \E t5 \in t4..MaxClock :
                     LET s == AppSecret(app, credentials.key, credentials.secret,
                                        DatetimeAt(t4), AddDays(DatetimeAt(t5), period))
                     IN  /\ clock' = t5
                         /\ faults' = AfterCalls(2)
                         /\ containers' = CreateSecretContainers(app)
                         /\ versions' = CreateSecretVersions(app, credentials, period, t1, t2, t3)
                         /\ apps_cache' = [apps_cache EXCEPT ![p] = Put(@, app, s)]
                         /\ resp' = Response(op, p, app, period, 200, <<s>>, EmptyBag, <<>>)

\* POST /apps/{app}/schedule with a period the RotationSchedule validator rejects:
\* the request is answered 422 before set_rotation_schedule runs.
CreateRejected(p, app, period) ==
    /\ pc[p] = "idle"
    /\ ~ValidPeriod(period)
    /\ resp' = Response("create", p, app, period, 422, <<>>, EmptyBag, <<>>)
    /\ UNCHANGED <<devMode, secret_manager, clock, uuid, store, apps_cache, pc, local, created, faults, timers>>

\* POST /apps/{app}/schedule: set_rotation_schedule -> key_manager.create_app
Create(p, app, period) ==
    /\ pc[p] = "idle"
    /\ ValidPeriod(period)
    /\ uuid + 2 <= MaxUuid
    /\ CreateApp(p, "create", app, period, 500)
    /\ created' = IF resp'.status = 200 THEN created \cup {app} ELSE created
    /\ UNCHANGED <<devMode, secret_manager, pc, local, timers>>

\* rotate_secret from "Store new credentials" on (durable mode), or whole (dev
\* mode); k is the number of client calls the handler has made before.
RotateWrite(p, app, new_credentials, rotation_period, k) ==
    IF devMode[p]
    THEN \E t4 \in clock..MaxClock : \E t5 \in t4..MaxClock :
           LET s == AppSecret(app, new_credentials.key, new_credentials.secret, DatetimeAt(t4),
                              AddDays(DatetimeAt(t5), RotateReturnedPeriod(rotation_period)))
           IN  /\ clock' = t5
               /\ apps_cache' = [apps_cache EXCEPT ![p] = Put(@, app, s)]
               /\ resp' = Response("rotate", p, app, 0, 200, <<s>>, EmptyBag, <<>>)
               /\ UNCHANGED <<store, faults>>
    ELSE \E t1 \in clock..MaxClock : \E t2 \in t1..MaxClock : \E t3 \in t2..MaxClock :
           LET f == AppSecret(app, new_credentials.key, new_credentials.secret, DatetimeAt(t3),
                              AddDays(DatetimeAt(t3), RotateReturnedPeriod(rotation_period)))
           IN
           IF CreateSecretRaises(app) \/ CallOutcome(k + 1) # "ok"
           THEN /\ clock' = t3
                /\ faults' = AfterCalls(k + 1)
                /\ resp' = Response("rotate", p, app, 0, 500, <<>>, EmptyBag, <<>>)
                /\ apps_cache' = CacheAfterFailedWrite(p, app, f)
                /\ UNCHANGED store
           ELSE IF CallOutcome(k + 2) # "ok"
           THEN /\ clock' = t3
                /\ faults' = AfterCalls(k + 2)
                /\ containers' = CreateSecretContainers(app)
                /\ resp' = Response("rotate", p, app, 0, 500, <<>>, EmptyBag, <<>>)
                /\ apps_cache' = CacheAfterFailedWrite(p, app, f)
                /\ UNCHANGED versions
           ELSE \E t4 \in t3..MaxClock : \E t5 \in t4..MaxClock :
                  LET s == AppSecret(app, new_credentials.key, new_credentials.secret, DatetimeAt(t4),
                                     AddDays(DatetimeAt(t5), RotateReturnedPeriod(rotation_period)))
                  IN  /\ clock' = t5
                      /\ faults' = AfterCalls(k + 2)
                      /\ containers' = CreateSecretContainers(app)
                      /\ versions' = CreateSecretVersions(app, new_credentials, rotation_period, t1, t2, t3)
                      /\ apps_cache' = [apps_cache EXCEPT ![p] = Put(@, app, s)]
                      /\ resp' = Response("rotate", p, app, 0, 200, <<s>>, EmptyBag, <<>>)

\* Variant: the existing secret is read in dev mode too.
RotateReadsStore_Always(p) == TRUE

\* rotate_secret reads the existing secret before it stores: "if not Config.DEV_MODE"
RotateReadsStore(p) == ~devMode[p]

\* key_manager.rotate_secret run without interruption. With DEV_MODE off the
\* secret is read first: secret_manager.get_secret raises AttributeError when
\* secret_manager is None; else the first client call is get_secret's, and when
\* it raises, or finds no version (the HTTPException(404) of get_secret), the
\* handler answers 500 as well.
rotate_secret(p, app) ==
    /\ pc[p] = "idle"
    /\ uuid + 2 <= MaxUuid
    /\ uuid' = uuid + 2
    /\ UNCHANGED <<devMode, secret_manager, pc, local, created>>
    /\ IF ~RotateReadsStore(p)
       THEN RotateWrite(p, app, NewCredentials(uuid), 0, 0)
       ELSE IF ~secret_manager[p]
       THEN /\ resp' = Response("rotate", p, app, 0, 500, <<>>, EmptyBag, <<>>)
            /\ UNCHANGED <<clock, store, apps_cache, faults>>
       ELSE IF CallOutcome(1) # "ok" \/ ~HasLatest(app)
       THEN /\ resp' = Response("rotate", p, app, 0, 500, <<>>, EmptyBag, <<>>)
            /\ faults' = AfterCalls(1)
            /\ UNCHANGED <<clock, store, apps_cache>>
       ELSE RotateWrite(p, app, NewCredentials(uuid), RotationPeriodWritten(GetSecret(app)), 1)

\* POST /apps/{app}/rotate: rotate_app_secret -> key_manager.rotate_secret
Rotate(p, app) == rotate_secret(p, app) /\ UNCHANGED timers

\* Variant: an absent cache entry is reported, not created.
LazyInit_NotFound(p, app) ==
    /\ resp' = Response("get_status", p, app, 0, 404, <<>>, EmptyBag, <<>>)
    /\ UNCHANGED <<clock, uuid, store, apps_cache, faults>>

\* get_app_status in dev mode on an app that is not in the cache:
\* apps_cache.get(app_name) or await self.create_app(app_name, ROTATION_PERIOD_DAYS)
LazyInit(p, app) ==
    /\ uuid + 2 <= MaxUuid
    /\ CreateApp(p, "get_status", app, ROTATION_PERIOD_DAYS, 404)

\* Variant: the status read from the store is kept in the cache.
CacheAfterStatus_ReadThrough(p, app) ==
    IF CallOutcome(1) = "ok" /\ HasLatest(app)
    THEN [apps_cache EXCEPT ![p] = Put(@, app, StatusFromSecret(app, GetSecret(app)))]
    ELSE apps_cache

\* The cache after get_app_status in durable mode: the AppSecret built from
\* the store is returned and not assigned to apps_cache.
CacheAfterStatus(p, app) == apps_cache

\* GET /apps/{app}: key_manager.get_app_status
GetStatus(p, app) ==
    /\ pc[p] = "idle"
    /\ UNCHANGED <<devMode, secret_manager, pc, local, created, timers>>
    /\ IF ~devMode[p] /\ ~secret_manager[p]
       THEN \* secret_manager is None: AttributeError, answered 404 like every exception
            /\ resp' = Response("get_status", p, app, 0, 404, <<>>, EmptyBag, <<>>)
            /\ UNCHANGED <<clock, uuid, store, apps_cache, faults>>
       ELSE IF ~devMode[p]
       THEN /\ resp' = IF CallOutcome(1) = "ok" /\ HasLatest(app)
                       THEN Response("get_status", p, app, 0, 200,
                                     <<StatusFromSecret(app, GetSecret(app))>>, EmptyBag, <<>>)
                       ELSE Response("get_status", p, app, 0, 404, <<>>, EmptyBag, <<>>)
            /\ faults' = AfterCalls(1)
            /\ apps_cache' = CacheAfterStatus(p, app)
            /\ UNCHANGED <<clock, uuid, store>>
       ELSE IF app \in DOMAIN apps_cache[p]
            THEN /\ resp' = Response("get_status", p, app, 0, 200, <<apps_cache[p][app]>>, EmptyBag, <<>>)
                 /\ UNCHANGED <<clock, uuid, store, apps_cache, faults>>
            ELSE LazyInit(p, app)

\* The orders in which client.list_secrets can yield the secrets of the store.
ListOrders ==
    LET n == Cardinality(DOMAIN containers)
    IN  {o \in [1..n -> DOMAIN containers] : \A i, j \in 1..n : o[i] = o[j] => i = j}

\* list_secrets, o being the order of the listing: the i-th secret is read by
\* call 1 + i (call 1 is the listing), and is kept when the read gives a payload.
Fetched(o, i) == CallOutcome(1 + i) = "ok" /\ HasLatest(containers[o[i]].app)

\* list_apps: the secrets kept are resolved in the order they were read, by
\* the calls that follow those of list_secrets.
Resolved(o, i) ==
    /\ Fetched(o, i)
    /\ CallOutcome(1 + Len(o) + Cardinality({j \in 1..i : Fetched(o, j)})) = "ok"

\* The client calls list_apps makes when the listing itself succeeds.
ListCalls(o) == 1 + Len(o) + Cardinality({j \in 1..Len(o) : Fetched(o, j)})

\* Variant: the failure of any call ends list_apps with an error.
ListAborts_AnyFailure(o) == \E k \in 1..ListCalls(o) : CallOutcome(k) # "ok"

\* list_apps is answered 500 when client.list_secrets raises; an exception for
\* one secret is logged and the secret is skipped.
ListAborts(o) == CallOutcome(1) # "ok"

\* GET /apps: list_apps
List(p) ==
    /\ pc[p] = "idle"
    /\ IF devMode[p]
       THEN /\ resp' = Response("list", p, "", 0, 200, <<>>,
                                CacheValues(apps_cache[p], DOMAIN apps_cache[p]), <<>>)
            /\ UNCHANGED faults
       ELSE IF ~secret_manager[p]
       THEN \* secret_manager is None: secret_manager.list_secrets raises AttributeError
            /\ resp' = Response("list", p, "", 0, 500, <<>>, EmptyBag, <<>>)
            /\ UNCHANGED faults
       ELSE \E o \in ListOrders :
              IF ListAborts(o)
              THEN /\ resp' = Response("list", p, "", 0, 500, <<>>, EmptyBag, <<>>)
                   /\ faults' = AfterCalls(IF CallOutcome(1) # "ok" THEN 1 ELSE ListCalls(o))
              ELSE /\ resp' = Response("list", p, "", 0, 200, <<>>,
                                ListStatuses(ListSecrets({o[i] : i \in {j \in 1..Len(o) : Resolved(o, j)}})),
                                <<>>)
                   /\ faults' = AfterCalls(ListCalls(o))
    /\ UNCHANGED <<devMode, secret_manager, clock, uuid, store, apps_cache, pc, local, created, timers>>

\* Variant: verify keeps the status it read in the cache.
VerifyLeaves_Caching(p, app) ==
    /\ UNCHANGED store
    /\ apps_cache' = IF ~devMode[p] /\ CallOutcome(1) = "ok" /\ HasLatest(app)
                     THEN [apps_cache EXCEPT ![p] = Put(@, app, StatusFromSecret(app, GetSecret(app)))]
                     ELSE apps_cache

\* What verify_app_secret assigns: nothing; it only reads through get_secret.
VerifyLeaves(p, app) == UNCHANGED <<containers, versions, apps_cache>>

\* GET /verify/{app}: verify_app_secret
Verify(p, app) ==
    /\ pc[p] = "idle"
    /\ resp' = Response("verify", p, app, 0, 200, <<>>, EmptyBag,
                 IF devMode[p]
                 THEN <<[mode |-> "development",
                         message |-> "Verification not available in dev mode"]>>
                 ELSE IF ~secret_manager[p]
                 THEN <<[exists |-> FALSE, error |-> "AttributeError"]>>
                 ELSE IF CallOutcome(1) # "ok"
                 THEN <<[exists |-> FALSE, error |-> "503"]>>
                 ELSE IF HasLatest(app)
                 THEN <<[exists |-> TRUE, app_name |-> app,
                         last_rotated |-> GetSecret(app).metadata.last_rotated,
                         next_rotation |-> GetSecret(app).metadata.next_rotation,
                         has_credentials |-> TRUE]>>
                 ELSE <<[exists |-> FALSE, error |-> "404"]>>)
    /\ faults' = IF devMode[p] \/ ~secret_manager[p] THEN faults ELSE AfterCalls(1)
    /\ VerifyLeaves(p, app)
    /\ UNCHANGED <<devMode, secret_manager, clock, uuid, pc, local, created, timers>>

\* rotate_secret in durable mode up to the return of get_secret: the credentials
\* are drawn and the current secret is read. A missing secret ends the call:
\* the HTTPException(404) of get_secret is caught and answered 500.
RotateBegin(p, app) ==
    /\ ~devMode[p] /\ secret_manager[p]
    /\ pc[p] = "idle"
    /\ uuid + 2 <= MaxUuid
    /\ uuid' = uuid + 2
    /\ IF CallOutcome(1) # "ok" \/ ~HasLatest(app)
       THEN /\ resp' = Response("rotate", p, app, 0, 500, <<>>, EmptyBag, <<>>)
            /\ UNCHANGED <<pc, local>>
       ELSE /\ pc' = [pc EXCEPT ![p] = "rotate_write"]
            /\ local' = [local EXCEPT ![p] =
                           [app |-> app, new_credentials |-> NewCredentials(uuid),
                            rotation_period |-> RotationPeriodWritten(GetSecret(app)),
                            times |-> <<>>, op |-> "rotate"]]
            /\ resp' = Response("rotate_read", p, app, 0, 200, <<>>, EmptyBag, <<>>)
    /\ faults' = AfterCalls(1)
    /\ UNCHANGED <<devMode, secret_manager, clock, store, apps_cache, created, timers>>

\* SecretManager.create_secret up to the return of client.create_secret, called
\* for operation op: secret_data is prepared (three clock readings) and the
\* secret is created; AlreadyExists is caught, any other exception is raised
\* again and the caller answers 500. On return the call goes on at nextpc.
CreateSecretBegin(p, op, app, credentials, period, respPeriod, nextpc) ==
    /\ \E t1 \in clock..MaxClock : \E t2 \in t1..MaxClock : \E t3 \in t2..MaxClock :
         LET f == AppSecret(app, credentials.key, credentials.secret,
                            DatetimeAt(t3), AddDays(DatetimeAt(t3), period))
         IN
         /\ clock' = t3
         /\ IF CreateSecretRaises(app) \/ CallOutcome(1) # "ok"
            THEN /\ resp' = Response(op, p, app, respPeriod, 500, <<>>, EmptyBag, <<>>)
                 /\ apps_cache' = CacheAfterFailedWrite(p, app, f)
                 /\ pc' = [pc EXCEPT ![p] = "idle"]
                 /\ local' = [local EXCEPT ![p] = NoLocal]
                 /\ UNCHANGED containers
            ELSE /\ containers' = CreateSecretContainers(app)
                 /\ pc' = [pc EXCEPT ![p] = nextpc]
                 /\ local' = [local EXCEPT ![p] =
                                [app |-> app, new_credentials |-> credentials,
                                 rotation_period |-> period, times |-> <<t1, t2, t3>>,
                                 op |-> op]]
                 /\ resp' = Response(IF op = "create" THEN "create_container" ELSE "rotate_container",
                                     p, app, respPeriod, 200,
                                     <<>>, EmptyBag, <<>>)
                 /\ UNCHANGED apps_cache
    /\ faults' = AfterCalls(1)
    /\ UNCHANGED versions

\* SecretManager.create_secret from client.add_secret_version on, and the rest
\* of the caller: the secret_data prepared before client.create_secret becomes
\* the newest version, then the AppSecret is built (two clock readings) with
\* next_rotation returnedPeriod days ahead, cached and returned.
CreateSecretEnd(p, respPeriod, returnedPeriod) ==
    /\ IF CallOutcome(1) # "ok"
       THEN /\ resp' = Response(local[p].op, p, local[p].app, respPeriod, 500,
                                <<>>, EmptyBag, <<>>)
            /\ apps_cache' = CacheAfterFailedWrite(p, local[p].app,
                   AppSecret(local[p].app, local[p].new_credentials.key,
                             local[p].new_credentials.secret, DatetimeAt(local[p].times[3]),
                             AddDays(DatetimeAt(local[p].times[3]), returnedPeriod)))
            /\ UNCHANGED <<clock, versions>>
       ELSE \E t4 \in clock..MaxClock : \E t5 \in t4..MaxClock :
              LET s == AppSecret(local[p].app, local[p].new_credentials.key,
                                 local[p].new_credentials.secret, DatetimeAt(t4),
                                 AddDays(DatetimeAt(t5), returnedPeriod))
              IN  /\ clock' = t5
                  /\ versions' = CreateSecretVersions(local[p].app, local[p].new_credentials,
                                                      local[p].rotation_period, local[p].times[1],
                                                      local[p].times[2], local[p].times[3])
                  /\ apps_cache' = [apps_cache EXCEPT ![p] = Put(@, local[p].app, s)]
                  /\ resp' = Response(local[p].op, p, local[p].app, respPeriod, 200,
                                      <<s>>, EmptyBag, <<>>)
    /\ faults' = AfterCalls(1)
    /\ pc' = [pc EXCEPT ![p] = "idle"]
    /\ local' = [local EXCEPT ![p] = NoLocal]
    /\ UNCHANGED containers

\* rotate_secret in durable mode from the return of get_secret to the return
\* of client.create_secret.
RotateMid(p) ==
    /\ pc[p] = "rotate_write"
    /\ CreateSecretBegin(p, "rotate", local[p].app, local[p].new_credentials,
                         local[p].rotation_period, 0, "rotate_add")
    /\ UNCHANGED <<devMode, secret_manager, uuid, created, timers>>

\* rotate_secret in durable mode from client.add_secret_version to its return.
RotateEnd(p) ==
    /\ pc[p] = "rotate_add"
    /\ CreateSecretEnd(p, 0, RotateReturnedPeriod(local[p].rotation_period))
    /\ UNCHANGED <<devMode, secret_manager, uuid, created, timers>>

\* POST /apps/{app}/schedule in durable mode up to the return of
\* client.create_secret: the period is validated, the credentials are drawn.
CreateBegin(p, app, period) ==
    /\ ~devMode[p] /\ secret_manager[p]
    /\ pc[p] = "idle"
    /\ ValidPeriod(period)
    /\ uuid + 2 <= MaxUuid
    /\ uuid' = uuid + 2
    /\ CreateSecretBegin(p, "create", app, NewCredentials(uuid), period, period, "create_add")
    /\ UNCHANGED <<devMode, secret_manager, created, timers>>

\* POST /apps/{app}/schedule in durable mode from client.add_secret_version to
\* the answer.
CreateEnd(p) ==
    /\ pc[p] = "create_add"
    /\ CreateSecretEnd(p, local[p].rotation_period, local[p].rotation_period)
    /\ created' = IF resp'.status = 200 THEN created \cup {local[p].app} ELSE created
    /\ UNCHANGED <<devMode, secret_manager, uuid, timers>>

\* One key manager process, every handler run to completion.
Next ==
    \/ \E app \in Apps, period \in PeriodInputs : CreateRejected(MainProc, app, period)
    \/ \E app \in Apps, period \in PeriodInputs : Create(MainProc, app, period)
    \/ \E app \in Apps : Rotate(MainProc, app)
    \/ \E app \in Apps : GetStatus(MainProc, app)
    \/ List(MainProc)
    \/ \E app \in Apps : Verify(MainProc, app)

Spec == Init /\ [][Next]_vars

\* Only create and list are called.
NextCreateList ==
    \/ \E app \in Apps, period \in PeriodInputs : CreateRejected(MainProc, app, period)
    \/ \E app \in Apps, period \in PeriodInputs : Create(MainProc, app, period)
    \/ List(MainProc)

SpecCreateList == Init /\ [][NextCreateList]_vars

\* Durable mode, several processes on one secret store: every call a handler
\* makes on the secret manager client is a request of its own to the store,
\* and calls of other processes may come between two of them.
InitConc == InitState([p \in Procs |-> FALSE], [p \in Procs |-> TRUE])

\* Periods offered to create by concurrent callers: two valid ones that differ.
ConcPeriods == {MinPeriod, ROTATION_PERIOD_DAYS}

NextConc ==
    \/ \E p \in Procs, app \in Apps : RotateBegin(p, app)
    \/ \E p \in Procs : RotateMid(p)
    \/ \E p \in Procs : RotateEnd(p)
    \/ \E p \in Procs, app \in Apps, period \in ConcPeriods : CreateBegin(p, app, period)
    \/ \E p \in Procs : CreateEnd(p)
    \/ \E p \in Procs, app \in Apps : GetStatus(p, app)

SpecConc == InitConc /\ [][NextConc]_vars



\* The outcomes the secret manager client can be made to give to the next
\* calls: at most MaxFaults of them, the last one being a failure.
FaultPatterns ==
    {f \in UNION {[1..n -> {"ok", "unavailable"}] : n \in 1..MaxFaults} :
       f[Len(f)] = "unavailable"}

\* The secret store becomes unavailable for some of the calls to come:
\* self.client.* raises ServiceUnavailable there.
StoreFault(f) ==
    /\ faults = <<>>
    /\ faults' = f
    /\ UNCHANGED <<devMode, secret_manager, clock, uuid, store, apps_cache, pc, local, resp, created, timers>>

\* One durable-mode process on a secret store whose calls can fail.
InitFault == InitState([p \in Procs |-> FALSE], [p \in Procs |-> TRUE])

NextFault ==
    \/ \E f \in FaultPatterns : StoreFault(f)
    \/ \E app \in Apps : Create(MainProc, app, MinPeriod)
    \/ \E app \in Apps : Rotate(MainProc, app)
    \/ \E app \in Apps : GetStatus(MainProc, app)
    \/ List(MainProc)
    \/ \E app \in Apps : Verify(MainProc, app)

SpecFault == InitFault /\ [][NextFault]_vars


\* Two deployments given the same calls, one after the other: process
\* TwinDurable runs with DEV_MODE off, process TwinLocal with DEV_MODE on (it
\* never touches the secret store).
TwinDurable == "w1"
TwinLocal == "w2"

InitTwin == InitState([p \in Procs |-> p = TwinLocal], [p \in Procs |-> TRUE])

\* The request op(app, period) served by process p.
Call(p, op, app, period) ==
    \/ op = "create" /\ CreateRejected(p, app, period)
    \/ op = "create" /\ Create(p, app, period)
    \/ op = "rotate" /\ Rotate(p, app)
    \/ op = "get_status" /\ GetStatus(p, app)
    \/ op = "list" /\ List(p)
    \/ op = "verify" /\ Verify(p, app)

\* The durable deployment serves a request, then the local one serves the same.
NextTwin ==
    \/ /\ resp.op = "start" \/ resp.proc = TwinLocal
       /\ \E op \in {"create", "rotate", "get_status", "list", "verify"},
             app \in Apps, period \in {MinPeriod, MaxPeriod + 1} :
            Call(TwinDurable, op, app, period)
    \/ /\ resp.op # "start" /\ resp.proc = TwinDurable
       /\ Call(TwinLocal, resp.op, resp.app, resp.period)

SpecTwin == InitTwin /\ [][NextTwin]_vars


(* ------------------------- RotationScheduler --------------------------- *)
\* The registry of recurring rotation timers. A timer is a record: the app it
\* rotates, its period in days, the id it was armed under, whether one of its
\* fires has failed, and the outcome of its last fire.
TimersOf(app) == {t \in timers : t.app = app}

\* The id the next timer is armed under.
NextTimerId ==
    IF timers = {} THEN 1
    ELSE 1 + (CHOOSE n \in {t.id : t \in timers} : \A t \in timers : t.id <= n)

Armed(app, period) ==
    [app |-> app, period |-> period, id |-> NextTimerId, failed |-> FALSE, last |-> "armed"]

\* Variant: the new timer is armed and the old one is left running.
TimersAfterSchedule_NoCancel(app, period) == timers \cup {Armed(app, period)}

\* schedule(app_name, period_days): the timers of the app are canceled and the
\* new one is armed, at once.
TimersAfterSchedule(app, period) == (timers \ TimersOf(app)) \cup {Armed(app, period)}

Schedule(p, app, period) ==
    /\ pc[p] = "idle"
    /\ ValidPeriod(period)
    /\ NextTimerId <= MaxTimerId
    /\ timers' = TimersAfterSchedule(app, period)
    /\ UNCHANGED <<devMode, secret_manager, clock, uuid, store, apps_cache, pc, local, resp, created, faults>>

\* Variant: a timer whose rotation failed is taken out of the registry.
TimersAfterFire_Deregister(t, ok) ==
    IF ok THEN (timers \ {t}) \cup {[t EXCEPT !.last = "ok"]} ELSE timers \ {t}

\* The registry after timer t fired and its rotation succeeded (ok) or failed:
\* the failure is logged and the timer stays armed.
TimersAfterFire(t, ok) ==
    (timers \ {t}) \cup {[t EXCEPT !.failed = @ \/ ~ok, !.last = IF ok THEN "ok" ELSE "failed"]}

\* Timer t fires: the rotation of its app is invoked.
TimerFire(p, t) ==
    /\ t \in timers
    /\ rotate_secret(p, t.app)
    /\ timers' = TimersAfterFire(t, resp'.status = 200)

\* One process: apps are created, rotations are scheduled, timers fire.
NextSched ==
    \/ \E app \in Apps : Create(MainProc, app, ROTATION_PERIOD_DAYS)
    \/ \E app \in Apps, period \in {MinPeriod, ROTATION_PERIOD_DAYS} : Schedule(MainProc, app, period)
    \/ \E t \in timers : TimerFire(MainProc, t)

SpecSched == Init /\ [][NextSched]_vars


(* ------------------- SecretManagerClient (secret_manager.py) ------------ *)
\* secret_data as prepared by store_api_key: the metadata carry no app_name.
ClientSecretData(credentials, period, t1, t2, t3) ==
    [credentials |-> credentials,
     metadata |-> [created_at |-> isoformat(DatetimeAt(t1)),
                   last_rotated |-> isoformat(DatetimeAt(t2)),
                   next_rotation |-> isoformat(AddDays(DatetimeAt(t3), period)),
                   rotation_period_days |-> period]]

\* json.dumps(secret_data).encode("UTF-8") of store_api_key
client_json_dumps(d) == <<d.credentials.key, d.credentials.secret,
                          d.metadata.created_at, d.metadata.last_rotated,
                          d.metadata.next_rotation, d.metadata.rotation_period_days>>

\* labels given to a secret created by store_api_key; strftime("%Y%m%d") keeps the day
ClientLabels(app, t) ==
    [app |-> app, created_by |-> "apigee-key-manager", created_at |-> DatetimeAt(t).day]

\* store_api_key, called for operation op, up to the answer of
\* client.get_secret: secret_data is prepared (three clock readings, the first
\* not before t0) and the existence of the secret is checked.
StoreApiKeyBegin(p, op, app, credentials, period, t0) ==
    /\ \E t1 \in t0..MaxClock : \E t2 \in t1..MaxClock : \E t3 \in t2..MaxClock :
         /\ clock' = t3
         /\ local' = [local EXCEPT ![p] =
                        [app |-> app, new_credentials |-> credentials,
                         rotation_period |-> period, times |-> <<t1, t2, t3>>, op |-> op]]
    /\ pc' = [pc EXCEPT ![p] = IF app \in DOMAIN containers THEN "store_add" ELSE "store_create"]
    /\ resp' = Response("store_check", p, app, period, 200, <<>>, EmptyBag, <<>>)
    /\ UNCHANGED <<devMode, secret_manager, store, apps_cache, created, faults, timers>>

\* store_api_key(app, credentials, period) called by itself, the credentials
\* being fresh ones.
StoreCheck(p, app, period) ==
    /\ pc[p] = "idle"
    /\ uuid + 2 <= MaxUuid
    /\ uuid' = uuid + 2
    /\ StoreApiKeyBegin(p, "store_api_key", app, NewCredentials(uuid), period, clock)

\* store_api_key, the NotFound branch: client.create_secret. The created_at
\* label is read from the clock while the request is built, before the call.
\* AlreadyExists is not caught there; the outer handler logs it and raises
\* it again.
StoreCreate(p) ==
    /\ pc[p] = "store_create"
    /\ \E t4 \in clock..MaxClock :
         /\ clock' = t4
         /\ IF AlreadyExists(containers, local[p].app)
            THEN /\ resp' = Response(local[p].op, p, local[p].app, local[p].rotation_period,
                                     500, <<>>, EmptyBag, <<[error |-> "AlreadyExists"]>>)
                 /\ pc' = [pc EXCEPT ![p] = "idle"]
                 /\ local' = [local EXCEPT ![p] = NoLocal]
                 /\ UNCHANGED containers
            ELSE /\ containers' = Put(containers, local[p].app, ClientLabels(local[p].app, t4))
                 /\ pc' = [pc EXCEPT ![p] = "store_add"]
                 /\ resp' = Response("store_create", p, local[p].app, local[p].rotation_period,
                                     200, <<>>, EmptyBag, <<>>)
                 /\ UNCHANGED local
    /\ UNCHANGED <<devMode, secret_manager, uuid, versions, apps_cache, created, faults, timers>>

\* The secret_data of the store_api_key call process p has in flight.
StoredSecretData(p) ==
    ClientSecretData(local[p].new_credentials, local[p].rotation_period,
                     local[p].times[1], local[p].times[2], local[p].times[3])

\* store_api_key from client.add_secret_version to the return of secret_data.
StoreAdd(p) ==
    /\ pc[p] = "store_add"
    /\ versions' = [versions EXCEPT ![local[p].app] = Append(@, client_json_dumps(StoredSecretData(p)))]
    /\ resp' = Response(local[p].op, p, local[p].app, local[p].rotation_period, 200,
                        <<>>, EmptyBag, <<StoredSecretData(p)>>)
    /\ pc' = [pc EXCEPT ![p] = "idle"]
    /\ local' = [local EXCEPT ![p] = NoLocal]
    /\ UNCHANGED <<devMode, secret_manager, clock, uuid, containers, apps_cache, created, faults, timers>>

\* json.loads(response.payload.data.decode("UTF-8")) of get_api_key
client_json_loads(b) ==
    [credentials |-> [key |-> b[1], secret |-> b[2]],
     metadata |-> [created_at |-> b[3], last_rotated |-> b[4], next_rotation |-> b[5],
                   rotation_period_days |-> b[6]]]

\* get_api_key: the decoded newest payload, or none when
\* client.access_secret_version raises NotFound.
GetApiKey(app) ==
    IF HasLatest(app) THEN <<client_json_loads(versions[app][Len(versions[app])])>> ELSE <<>>

\* update_api_key(app, new_credentials) up to the answer of get_api_key, the
\* credentials being fresh ones: without a current secret ValueError is
\* raised and nothing is written.
UpdateRead(p, app) ==
    /\ pc[p] = "idle"
    /\ uuid + 2 <= MaxUuid
    /\ uuid' = uuid + 2
    /\ IF GetApiKey(app) = <<>>
       THEN /\ resp' = Response("update_api_key", p, app, 0, 500, <<>>, EmptyBag,
                                <<[error |-> "ValueError"]>>)
            /\ UNCHANGED <<pc, local>>
       ELSE /\ pc' = [pc EXCEPT ![p] = "update_store"]
            /\ local' = [local EXCEPT ![p] =
                           [app |-> app, new_credentials |-> NewCredentials(uuid),
                            rotation_period |-> GetApiKey(app)[1].metadata.rotation_period_days,
                            times |-> <<>>, op |-> "update_api_key"]]
            /\ resp' = Response("update_read", p, app, 0, 200, <<>>, EmptyBag, <<>>)
    /\ UNCHANGED <<devMode, secret_manager, clock, store, apps_cache, created, faults, timers>>

\* update_api_key from the answer of get_api_key to the answer of
\* client.get_secret: updated_data is built (two clock readings) and dropped,
\* then store_api_key is called with the new credentials and the period read.
UpdateStore(p) ==
    /\ pc[p] = "update_store"
    /\ \E u1 \in clock..MaxClock : \E u2 \in u1..MaxClock :
         StoreApiKeyBegin(p, "update_api_key", local[p].app, local[p].new_credentials,
                          local[p].rotation_period, u2)
    /\ UNCHANGED uuid

\* Several processes call store_api_key and update_api_key on one secret
\* store; the client calls of one call are separate requests, and those of
\* another may come between.
NextStore ==
    \/ \E p \in Procs, app \in Apps : StoreCheck(p, app, ROTATION_PERIOD_DAYS)
    \/ \E p \in Procs : StoreCreate(p)
    \/ \E p \in Procs : StoreAdd(p)
    \/ \E p \in Procs, app \in Apps : UpdateRead(p, app)
    \/ \E p \in Procs : UpdateStore(p)

SpecStore == InitConc /\ [][NextStore]_vars


(* ------------------------------- claims -------------------------------- *)
\* The deployment modes: process p runs in durable mode when DEV_MODE is off and
\* its secret manager is set up, in local mode when DEV_MODE is on. A process
\* with DEV_MODE off and no GOOGLE_CLOUD_PROJECT has no backend: it is in neither.
Durable(p) == ~devMode[p] /\ secret_manager[p]
Local(p) == devMode[p]
InMode(p) == Durable(p) \/ Local(p)

\* The newest (Active) payload of app a, decoded.
Active(a) == json_loads(versions[a][Len(versions[a])])

\* Number of entries of the bag B that carry the app name a.
EntriesFor(B, a) ==
    BagCardinality([x \in {y \in BagToSet(B) : y.app_name = a} |-> B[x]])

\* The uuid draw behind a generated key or secret.
DrawOf(token) == token[2]

\* C1: rotate(app) right after create(app, p) returns an AppSecret whose
\* next_rotation is its last_rotated plus p days, in both modes.
C1_RotateReturnsExistingPeriod ==
    [][(/\ resp.op = "create" /\ resp.status = 200
        /\ resp'.op = "rotate" /\ resp'.status = 200 /\ resp'.app = resp.app)
       => resp'.secret[1].next_rotation
            = AddDays(resp'.secret[1].last_rotated, resp.period)]_vars

\* C2: get_status(app) right after create(app, p) returns an AppSecret whose
\* next_rotation is its last_rotated plus p days, in both modes.
C2_StatusAfterCreate ==
    [][(/\ resp.op = "create" /\ resp.status = 200
        /\ resp'.op = "get_status" /\ resp'.status = 200 /\ resp'.app = resp.app)
       => resp'.secret[1].next_rotation
            = AddDays(resp'.secret[1].last_rotated, resp.period)]_vars

\* C3: a rotation run to completion leaves the rotation_period_days recorded
\* for the app in the store as it was before the rotation.
C3_RotateKeepsRecordedPeriod ==
    [][\A a \in Apps :
         (resp'.op = "rotate" /\ resp'.status = 200 /\ resp'.app = a /\ Durable(resp'.proc))
         => /\ HasLatest(a)
            /\ Active(a)'.metadata.rotation_period_days
                 = Active(a).metadata.rotation_period_days]_vars

\* C3 witness: a rotation of an app whose recorded period is not the default.
C3_Witness ==
    /\ resp.op = "rotate" /\ resp.status = 200 /\ Durable(resp.proc)
    /\ Len(versions[resp.app]) >= 2
    /\ Active(resp.app).metadata.rotation_period_days # ROTATION_PERIOD_DAYS

\* C4: every successful rotate leaves a consumer key and a consumer secret
\* that both differ from the ones that were current before it (the Active
\* version of the store in durable mode, the cache entry in dev mode).
C4_RotateChangesCredentials ==
    [][\A a \in Apps :
         (resp'.op = "rotate" /\ resp'.status = 200 /\ resp'.app = a)
         => IF devMode[resp'.proc]
            THEN a \in DOMAIN apps_cache[resp'.proc]
                 => /\ apps_cache'[resp'.proc][a].consumer_key
                         # apps_cache[resp'.proc][a].consumer_key
                    /\ apps_cache'[resp'.proc][a].consumer_secret
                         # apps_cache[resp'.proc][a].consumer_secret
            ELSE /\ HasLatest(a)
                 /\ Active(a)'.credentials.key # Active(a).credentials.key
                 /\ Active(a)'.credentials.secret # Active(a).credentials.secret
                 /\ resp'.secret[1].consumer_key = Active(a)'.credentials.key
                 /\ resp'.secret[1].consumer_secret = Active(a)'.credentials.secret]_vars

\* C4 witness: a rotation of an app that create had given credentials.
C4_Witness ==
    /\ resp.op = "rotate" /\ resp.status = 200 /\ resp.app \in created

\* C5: a rotation's write appends exactly one version above all existing
\* ones, leaves the earlier versions as they were, and the new Active version
\* pairs the credentials this rotation drew with the last_rotated this same
\* rotation read when it prepared its payload, also when another process
\* writes between two of its calls to the store; the versions of an app carry
\* pairwise distinct keys; get_status returns the credentials and
\* last_rotated of the Active version.
C5_ConcurrentRotationsAppend ==
    [][/\ \A a \in Apps :
            (resp'.op = "get_status" /\ resp'.status = 200 /\ resp'.app = a)
            => /\ HasLatest(a)
               /\ resp'.secret[1].consumer_key = Active(a).credentials.key
               /\ resp'.secret[1].consumer_secret = Active(a).credentials.secret
               /\ resp'.secret[1].last_rotated
                    = fromisoformat(Active(a).metadata.last_rotated)
       /\ \A p \in Procs :
         (pc[p] = "rotate_add" /\ pc'[p] = "idle" /\ resp'.status = 200)
         => LET a == local[p].app
                n == Len(versions[a])
            IN  /\ Len(versions'[a]) = n + 1
                /\ SubSeq(versions'[a], 1, n) = versions[a]
                /\ json_loads(versions'[a][n + 1]).credentials = local[p].new_credentials
                /\ fromisoformat(json_loads(versions'[a][n + 1]).metadata.last_rotated)
                     = DatetimeAt(local[p].times[2])
                /\ \A i \in 1..n :
                     json_loads(versions'[a][i]).credentials.key
                       # json_loads(versions'[a][n + 1]).credentials.key]_vars

\* C5 witness: three versions, the newest written by a rotation that drew its
\* credentials before the writer of the second version did: the two overlapped.
C5_Witness ==
    /\ resp.op = "rotate" /\ resp.status = 200
    /\ Len(versions[resp.app]) = 3
    /\ DrawOf(json_loads(versions[resp.app][3]).credentials.key)
         < DrawOf(json_loads(versions[resp.app][2]).credentials.key)

\* C6: every version a rotation writes carries the rotation period of the
\* version that was Active right before that write.
C6_RotationWritesCurrentPeriod ==
    [][\A p \in Procs, a \in Apps :
         (/\ pc[p] = "rotate_add" /\ local[p].app = a
          /\ pc'[p] = "idle" /\ resp'.status = 200)
         => Active(a)'.metadata.rotation_period_days
              = Active(a).metadata.rotation_period_days]_vars

\* C7: in durable mode a create that passed validation succeeds whether or
\* not the container exists, the name has its one container afterwards and no
\* other container appears, and exactly one version is appended.
C7_CreateIdempotentContainer ==
    [][\A a \in Apps :
         (resp'.op = "create" /\ resp'.app = a /\ resp'.status # 422 /\ Durable(resp'.proc))
         => /\ resp'.status = 200
            /\ DOMAIN containers' = DOMAIN containers \cup {a}
            /\ containers'[a] = SecretLabels(a)
            /\ Len(versions'[a]) = Len(versions[a]) + 1
            /\ SubSeq(versions'[a], 1, Len(versions[a])) = versions[a]]_vars

\* C7 witness: a create that found the app's container and a version in place.
C7_Witness ==
    /\ resp.op = "create" /\ resp.status = 200 /\ Durable(resp.proc)
    /\ resp.app \in DOMAIN containers
    /\ Len(versions[resp.app]) >= 2

\* C8: when only create has been called, list returns one AppSecret for every
\* name create succeeded for and nothing else, in both modes.
C8_ListReturnsCreated ==
    (resp.op = "list" /\ InMode(resp.proc))
    => /\ resp.status = 200
       /\ \A a \in Apps : EntriesFor(resp.apps, a) = (IF a \in created THEN 1 ELSE 0)
       /\ BagCardinality(resp.apps) = Cardinality(created)

\* C8 witness: a listing after three creates over two names (one repeated).
C8_Witness ==
    /\ resp.op = "list" /\ created = Apps /\ uuid = 6

\* C9: a create with a period below 1 or above 365 is answered with a
\* validation error and leaves store and cache untouched, whatever the
\* deployment; a create with period 1 or 365 succeeds in both modes.
C9_CreateValidatesPeriod ==
    [][resp'.op = "create"
       => /\ (resp'.period < MinPeriod \/ resp'.period > MaxPeriod)
               => /\ resp'.status = 422
                  /\ UNCHANGED <<containers, versions, apps_cache>>
          /\ (resp'.period \in {MinPeriod, MaxPeriod} /\ InMode(resp'.proc))
               => resp'.status = 200]_vars

\* C9 witness: a rejected create of a name that is already in use.
C9_Witness ==
    /\ resp.op = "create" /\ resp.status = 422 /\ resp.period = MaxPeriod + 1
    /\ resp.app \in created

\* C10: verify of a name that was never created answers a record whose
\* exists field is false, in both modes.
C10_VerifyAbsentSaysNotExists ==
    (/\ resp.op = "verify"
     /\ resp.app \notin DOMAIN containers
     /\ \A p \in Procs : resp.app \notin DOMAIN apps_cache[p])
    => /\ resp.status = 200
       /\ Len(resp.body) = 1
       /\ "exists" \in DOMAIN resp.body[1]
       /\ resp.body[1].exists = FALSE

\* C11: verify changes neither the containers, nor the versions, nor any
\* cache, whether the app exists or not.
C11_VerifyReadOnly ==
    [][resp'.op = "verify" => UNCHANGED <<containers, versions, apps_cache>>]_vars

\* C11 witness: a durable-mode verify that found and read the app's secret.
C11_Witness ==
    /\ resp.op = "verify" /\ Durable(resp.proc)
    /\ HasLatest(resp.app)
    /\ resp.body[1].exists = TRUE

\* C12: in dev mode get_status of a name that is not in the cache answers 200
\* with an AppSecret of that name whose next_rotation is a clock reading of the
\* call plus the configured default period, and that AppSecret is the cache
\* entry of the name afterwards.
C12_StatusLazyInit ==
    [][\A p \in Procs, a \in Apps :
         (/\ resp'.op = "get_status" /\ resp'.proc = p /\ resp'.app = a
          /\ devMode[p] /\ a \notin DOMAIN apps_cache[p])
         => /\ resp'.status = 200
            /\ Len(resp'.secret) = 1
            /\ resp'.secret[1].app_name = a
            /\ \E t \in clock..clock' :
                 resp'.secret[1].next_rotation = AddDays(DatetimeAt(t), ROTATION_PERIOD_DAYS)
            /\ a \in DOMAIN apps_cache'[p]
            /\ apps_cache'[p][a] = resp'.secret[1]]_vars

\* C12 witness: the first call of a dev-mode process is a get_status, and the
\* name is in the cache after it.
C12_Witness ==
    /\ resp.op = "get_status" /\ resp.status = 200 /\ devMode[resp.proc]
    /\ uuid = 2 /\ created = {}
    /\ resp.app \in DOMAIN apps_cache[resp.proc]

\* C13: in durable mode rotate of a name that has no container is answered
\* not-found (404) and leaves containers, versions and caches as they were.
C13_RotateAbsentNotFound ==
    [][\A a \in Apps :
         (/\ resp'.op = "rotate" /\ resp'.app = a /\ Durable(resp'.proc)
          /\ a \notin DOMAIN containers)
         => /\ resp'.status = 404
            /\ UNCHANGED <<containers, versions, apps_cache>>]_vars

\* C14: every version a successful rotate writes carries the created_at of the
\* app's first version.
C14_CreatedAtSetOnce ==
    [][\A a \in Apps :
         (resp'.op = "rotate" /\ resp'.app = a /\ resp'.status = 200 /\ Durable(resp'.proc))
         => Active(a)'.metadata.created_at
              = json_loads(versions[a][1]).metadata.created_at]_vars

\* C20: a step never removes or rewrites a version that exists, and a
\* successful durable create or rotate puts exactly one version after them.
C20_StoreAppendOnly ==
    [][\A a \in Apps :
         /\ Len(versions'[a]) >= Len(versions[a])
         /\ \A i \in 1..Len(versions[a]) : versions'[a][i] = versions[a][i]
         /\ (/\ resp'.op \in {"create", "rotate"} /\ resp'.app = a
             /\ resp'.status = 200 /\ Durable(resp'.proc))
            => Len(versions'[a]) = Len(versions[a]) + 1]_vars

\* C20 witness: a rotate wrote the third version of an app.
C20_Witness ==
    /\ resp.op = "rotate" /\ resp.status = 200 /\ Durable(resp.proc)
    /\ Len(versions[resp.app]) = 3

\* The client calls of the step that were answered "unavailable".
FailedCalls == {i \in 1..(Len(faults) - Len(faults')) : faults[i] = "unavailable"}

\* C16: when a client call of the store write of a durable create or rotate
\* fails, the call is answered with an error and no AppSecret, the app's
\* versions are what they were, and so is its cache entry (or its absence).
C16_FailedWriteLeavesNoTrace ==
    [][\A p \in Procs, a \in Apps :
         (/\ resp'.proc = p /\ resp'.app = a /\ Durable(p)
          /\ \/ /\ resp'.op = "create" /\ resp'.status # 422
                /\ (CallOutcome(1) # "ok" \/ CallOutcome(2) # "ok")
             \/ /\ resp'.op = "rotate"
                /\ CallOutcome(1) = "ok" /\ HasLatest(a)
                /\ (CallOutcome(2) # "ok" \/ CallOutcome(3) # "ok"))
         => /\ resp'.status = 500
            /\ resp'.secret = <<>>
            /\ versions'[a] = versions[a]
            /\ (a \in DOMAIN apps_cache'[p]) = (a \in DOMAIN apps_cache[p])
            /\ a \in DOMAIN apps_cache[p] => apps_cache'[p][a] = apps_cache[p][a]]_vars

\* C16 witness: a create for an app that has a version and a cache entry
\* failed (every client call of create belongs to the write).
C16_Witness ==
    /\ resp.op = "create" /\ resp.status = 500 /\ Durable(resp.proc)
    /\ HasLatest(resp.app)
    /\ resp.app \in DOMAIN apps_cache[resp.proc]

\* C19: a create, rotate or get_status that is answered with an error because
\* a client call was unavailable has seen at least two unavailable calls (the
\* call was tried again before the error was surfaced); a read that finds no
\* secret is made once.
C19_TransientFailureRetried ==
    [][\A a \in Apps :
         (resp'.app = a /\ resp'.op \in {"create", "rotate", "get_status"}
          /\ Durable(resp'.proc) /\ Len(faults') < Len(faults))
         => /\ (FailedCalls # {} /\ resp'.status # 200) => Cardinality(FailedCalls) >= 2
            /\ (resp'.op \in {"rotate", "get_status"}
                /\ CallOutcome(1) = "ok" /\ ~HasLatest(a))
               => Len(faults') = Len(faults) - 1]_vars

\* The names of the apps a listing returned.
ListedNames(r) == {s.app_name : s \in BagToSet(r.apps)}

\* C15: when the local deployment answers the call the durable deployment has
\* just answered, after the same calls before it, the two answers have the
\* same status, carry an AppSecret or none alike with the same distance in
\* days between last_rotated and next_rotation, list the same names, and give
\* a verify record with the same fields.
C15_ModesEquivalent ==
    [][(resp.op # "start" /\ resp.proc = TwinDurable /\ resp'.proc = TwinLocal)
       => /\ resp'.status = resp.status
          /\ Len(resp'.secret) = Len(resp.secret)
          /\ Len(resp.secret) = 1
               => resp'.secret[1].next_rotation.day - resp'.secret[1].last_rotated.day
                    = resp.secret[1].next_rotation.day - resp.secret[1].last_rotated.day
          /\ ListedNames(resp') = ListedNames(resp)
          /\ Len(resp'.body) = Len(resp.body)
          /\ Len(resp.body) = 1 => DOMAIN resp'.body[1] = DOMAIN resp.body[1]]_vars

\* C17: an app never has more than one timer, and a step that arms a timer
\* for an app leaves none of the timers the app had before.
C17_OneTimerPerApp ==
    /\ [](\A a \in Apps : Cardinality(TimersOf(a)) <= 1)
    /\ [][\A a \in Apps :
            (\E n \in TimersOf(a)' : n.id \notin {t.id : t \in timers})
            => \A t \in TimersOf(a) : t.id \notin {n.id : n \in timers'}]_vars

\* C17 witness: the app's timer was armed second while the first timer, of
\* another app, still runs: it replaced one.
C17_Witness ==
    \E a \in Apps, b \in Apps :
      /\ a # b
      /\ \E t \in TimersOf(a) : t.id = 3
      /\ \E t \in TimersOf(b) : t.id = 2

\* C18: a step in which a rotation ran and failed leaves every timer
\* registered, with its app, period and id.
C18_FailedFireKeepsTimer ==
    [][(uuid' = uuid + 2 /\ resp'.op = "rotate" /\ resp'.status # 200)
       => \A t \in timers :
            \E n \in timers' : n.app = t.app /\ n.period = t.period /\ n.id = t.id]_vars

\* C18 witness: a timer that has had a failed fire has rotated its app on a
\* later fire.
C18_Witness ==
    \E t \in timers :
      /\ t.failed /\ t.last = "ok"
      /\ resp.op = "rotate" /\ resp.status = 200 /\ resp.app = t.app

\* C21: a durable-mode get_status that answered 200 returned the key, the
\* secret, last_rotated and next_rotation of the newest version of the app,
\* and its key is the key of no older version.
C21_StatusReturnsActive ==
    (resp.op = "get_status" /\ resp.status = 200 /\ Durable(resp.proc))
    => /\ HasLatest(resp.app)
       /\ resp.secret[1].consumer_key = Active(resp.app).credentials.key
       /\ resp.secret[1].consumer_secret = Active(resp.app).credentials.secret
       /\ isoformat(resp.secret[1].last_rotated) = Active(resp.app).metadata.last_rotated
       /\ isoformat(resp.secret[1].next_rotation) = Active(resp.app).metadata.next_rotation
       /\ \A i \in 1..(Len(versions[resp.app]) - 1) :
            json_loads(versions[resp.app][i]).credentials.key # resp.secret[1].consumer_key

\* C21 witness: the status of an app with a superseded version was read,
\* three pairs of credentials having been drawn.
C21_Witness ==
    /\ resp.op = "get_status" /\ resp.status = 200 /\ Durable(resp.proc)
    /\ Len(versions[resp.app]) = 2
    /\ uuid = 6

\* C23: a durable-mode get_status is answered not-found (404) exactly when
\* the store holds no version of the app; when the read fails because the
\* store is unavailable the answer is an error other than not-found.
C23_AbsentIffNoVersion ==
    [][\A a \in Apps :
         (resp'.op = "get_status" /\ resp'.app = a /\ Durable(resp'.proc)
          /\ Len(faults') <= Len(faults))
         => /\ (resp'.status = 404) = ~HasLatest(a)
            /\ CallOutcome(1) # "ok" => resp'.status \notin {200, 404}]_vars

\* C24: a get_status that directly follows a successful create or rotate of
\* the same app in the same process answers 200 with the consumer_key,
\* consumer_secret and next_rotation that call returned, in both modes.
C24_StatusEqualsReturned ==
    [][(/\ resp.op \in {"create", "rotate"} /\ resp.status = 200
        /\ resp'.op = "get_status" /\ resp'.app = resp.app /\ resp'.proc = resp.proc)
       => /\ resp'.status = 200
          /\ resp'.secret[1].consumer_key = resp.secret[1].consumer_key
          /\ resp'.secret[1].consumer_secret = resp.secret[1].consumer_secret
          /\ resp'.secret[1].next_rotation = resp.secret[1].next_rotation]_vars

\* The app is there for process p: in its cache in dev mode, with a version in
\* the store in durable mode.
Exists(p, a) == IF devMode[p] THEN a \in DOMAIN apps_cache[p] ELSE HasLatest(a)

\* C25: get_status of an app that is there answers 200 and changes no
\* container, no version and no cache; when the call before it was a
\* get_status of the same app, it returns the same AppSecret.
C25_StatusReadOnlyRepeatable ==
    [][\A p \in Procs, a \in Apps :
         (resp'.op = "get_status" /\ resp'.proc = p /\ resp'.app = a /\ Exists(p, a))
         => /\ resp'.status = 200
            /\ UNCHANGED <<containers, versions, apps_cache>>
            /\ (resp.op = "get_status" /\ resp.proc = p /\ resp.app = a)
               => resp'.secret = resp.secret]_vars

\* C25 witness: get_status of a durable app that was created and rotated.
C25_Witness ==
    /\ resp.op = "get_status" /\ resp.status = 200 /\ Durable(resp.proc)
    /\ Len(versions[resp.app]) = 2
    /\ resp.app \in DOMAIN apps_cache[resp.proc]
    /\ apps_cache[resp.proc][resp.app].consumer_key = resp.secret[1].consumer_key

\* C27: a create, rotate or get_status of app a, answered 200 or with an
\* error, leaves the container, the versions and every cache entry of any
\* other app b as they were.
C27_OtherAppsUntouched ==
    [][\A a \in Apps, b \in Apps :
         (a # b /\ resp'.op \in {"create", "rotate", "get_status"} /\ resp'.app = a)
         => /\ (b \in DOMAIN containers') = (b \in DOMAIN containers)
            /\ b \in DOMAIN containers => containers'[b] = containers[b]
            /\ versions'[b] = versions[b]
            /\ \A p \in Procs :
                 /\ (b \in DOMAIN apps_cache'[p]) = (b \in DOMAIN apps_cache[p])
                 /\ b \in DOMAIN apps_cache[p] => apps_cache'[p][b] = apps_cache[p][b]]_vars

\* C27 witness: an operation on one app failed while the other app has a
\* container, a version and a cache entry.
C27_Witness ==
    \E b \in Apps :
      /\ b # resp.app
      /\ resp.op \in {"create", "rotate", "get_status"} /\ resp.status \notin {200, 422}
      /\ HasLatest(b)
      /\ b \in DOMAIN apps_cache[resp.proc]

\* C28: no step takes a container out of the store or an app out of a cache,
\* and no step leaves an app with fewer versions.
C28_TrackedStateGrows ==
    [][\A a \in Apps :
         /\ a \in DOMAIN containers => a \in DOMAIN containers'
         /\ Len(versions'[a]) >= Len(versions[a])
         /\ \A p \in Procs : a \in DOMAIN apps_cache[p] => a \in DOMAIN apps_cache'[p]]_vars

\* C28 witness: both apps are tracked, three writes were made, and a listing
\* returned both.
C28_Witness ==
    /\ resp.op = "list" /\ BagCardinality(resp.apps) = 2
    /\ \A a \in Apps : EntriesFor(resp.apps, a) = 1
    /\ uuid = 6

\* C29: in dev mode a rotate of an app that is not in the cache answers 200
\* with credentials no cache entry holds, and leaves the returned AppSecret as
\* the app's cache entry and in the values of the cache; a get_status or a
\* list that directly follows a dev-mode rotate returns that AppSecret, and
\* draws no credentials.
C29_DevRotateUntracked ==
    [][\A p \in Procs, a \in Apps :
         /\ (/\ resp'.op = "rotate" /\ resp'.proc = p /\ resp'.app = a
             /\ devMode[p] /\ a \notin DOMAIN apps_cache[p] /\ uuid' # uuid)
            => /\ resp'.status = 200
               /\ Len(resp'.secret) = 1
               /\ \A b \in DOMAIN apps_cache[p] :
                    /\ apps_cache[p][b].consumer_key # resp'.secret[1].consumer_key
                    /\ apps_cache[p][b].consumer_secret # resp'.secret[1].consumer_secret
               /\ a \in DOMAIN apps_cache'[p]
               /\ apps_cache'[p][a] = resp'.secret[1]
               /\ EntriesFor(CacheValues(apps_cache'[p], DOMAIN apps_cache'[p]), a) = 1
         /\ (/\ resp.op = "rotate" /\ resp.proc = p /\ resp.app = a /\ devMode[p]
             /\ resp'.proc = p /\ resp' # resp)
            => /\ (resp'.op = "get_status" /\ resp'.app = a)
                    => resp'.secret = resp.secret /\ uuid' = uuid
               /\ resp'.op = "list"
                    => resp.secret[1] \in BagToSet(resp'.apps)]_vars

\* C29 witness: the first call of a dev-mode process was a rotate (its cache
\* was empty), and the app is in the cache after it.
C29_Witness ==
    /\ resp.op = "rotate" /\ resp.status = 200 /\ devMode[resp.proc]
    /\ uuid = 2
    /\ DOMAIN apps_cache[resp.proc] = {resp.app}

\* C22: a durable-mode list whose listing call is answered succeeds whatever
\* the reads of the entries do: it returns at most one entry per app, every
\* entry is the current status of its app, and each failed call costs at most
\* one of the apps that have a version.
C22_ListSkipsFailedEntry ==
    [][(resp'.op = "list" /\ Durable(resp'.proc)
        /\ Len(faults') <= Len(faults) /\ CallOutcome(1) = "ok")
       => /\ resp'.status = 200
          /\ \A a \in Apps : EntriesFor(resp'.apps, a) <= 1
          /\ \A s \in BagToSet(resp'.apps) :
               /\ HasLatest(s.app_name)
               /\ s.consumer_key = Active(s.app_name).credentials.key
               /\ s.consumer_secret = Active(s.app_name).credentials.secret
               /\ isoformat(s.last_rotated) = Active(s.app_name).metadata.last_rotated
               /\ isoformat(s.next_rotation) = Active(s.app_name).metadata.next_rotation
          /\ BagCardinality(resp'.apps) + Cardinality(FailedCalls)
               >= Cardinality({a \in Apps : HasLatest(a)})]_vars

\* C22 witness: both apps have a version and a listing returned one of them,
\* the read of the other having failed.
C22_Witness ==
    /\ resp.op = "list" /\ resp.status = 200 /\ Durable(resp.proc)
    /\ \A a \in Apps : HasLatest(a)
    /\ BagCardinality(resp.apps) = 1

\* C26: every store_api_key call run by concurrent processes ends with
\* success, the app has its one container after it, and the call has added
\* exactly one version.
C26_ConcurrentStoreBothSucceed ==
    [][\A p \in Procs, a \in Apps :
         (/\ pc[p] \in {"store_create", "store_add"} /\ local[p].app = a
          /\ local[p].op = "store_api_key" /\ pc'[p] = "idle")
         => /\ resp'.status = 200
            /\ a \in DOMAIN containers'
            /\ Len(versions'[a]) = Len(versions[a]) + 1]_vars

====
